---- MODULE Spec2Model ----
(***************************************************************************)
(* A model of jln2kavita.py: the filename field extractors, the folder     *)
(* classifier, the ebook-meta command builder and the copy loop.           *)
(*                                                                         *)
(* Strings are sequences of one-character strings, so that the regular     *)
(* expressions, the substring tests and the string formatting of the       *)
(* script are computed character by character.  Positions are 1-based      *)
(* (Python's match.start() is 0-based); only their order is ever used.     *)
(***************************************************************************)
EXTENDS Integers, Sequences, FiniteSets, TLC

(***************************************************************************)
(* Bounds of the model.                                                    *)
(***************************************************************************)
\* A filename is at most this many segments of Segments, then ".epub".
MaxSegments == 3

\* The largest folder position (enumerate index) of the one-series loop.
MaxFolderIndex == 10

\* The deepest relative folder path the classifier is run on.
MaxDepth == 3

\* The most series folders the source directory holds.
MaxSeries == 2

\* The number of times the script is run on the same source and target.
MaxRuns == 2

(***************************************************************************)
(* Python values.                                                          *)
(***************************************************************************)
\* Python's None.  No string of the script equals it: every element of a
\* modelled string is a single character.
None == <<"<None>">>

\* Truthiness of an optional string ("if x:"): neither None nor "".
Truthy(x) == x # None /\ x # <<>>

(***************************************************************************)
(* Character classes of Python's re module (ASCII part).                   *)
(***************************************************************************)
Digits == {"0", "1", "2", "3", "4", "5", "6", "7", "8", "9"}

LowerLetters ==
    {"a", "b", "c", "d", "e", "f", "g", "h", "i", "j", "k", "l", "m",
     "n", "o", "p", "q", "r", "s", "t", "u", "v", "w", "x", "y", "z"}

UpperLetters ==
    {"A", "B", "C", "D", "E", "F", "G", "H", "I", "J", "K", "L", "M",
     "N", "O", "P", "Q", "R", "S", "T", "U", "V", "W", "X", "Y", "Z"}

\* \d
IsDigit(c) == c \in Digits

\* \s
IsSpace(c) == c \in {" ", "\t", "\n", "\r"}

\* \w
IsWord(c) == c \in Digits \/ c \in LowerLetters \/ c \in UpperLetters \/ c = "_"

\* str.lower() on one character; also the folding of re.IGNORECASE.
LowerChar(c) ==
    CASE c = "A" -> "a" [] c = "B" -> "b" [] c = "C" -> "c" [] c = "D" -> "d"
      [] c = "E" -> "e" [] c = "F" -> "f" [] c = "G" -> "g" [] c = "H" -> "h"
      [] c = "I" -> "i" [] c = "J" -> "j" [] c = "K" -> "k" [] c = "L" -> "l"
      [] c = "M" -> "m" [] c = "N" -> "n" [] c = "O" -> "o" [] c = "P" -> "p"
      [] c = "Q" -> "q" [] c = "R" -> "r" [] c = "S" -> "s" [] c = "T" -> "t"
      [] c = "U" -> "u" [] c = "V" -> "v" [] c = "W" -> "w" [] c = "X" -> "x"
      [] c = "Y" -> "y" [] c = "Z" -> "z" [] OTHER -> c

\* str.lower()
Lower(s) == [k \in 1..Len(s) |-> LowerChar(s[k])]

\* s[a..b], empty when b < a.
Slice(s, a, b) == IF b < a THEN <<>> ELSE SubSeq(s, a, b)

(***************************************************************************)
(* The pattern library.  A labelled pattern is  lit sep* (\d+(\.\d+)?)     *)
(* compiled with re.IGNORECASE: lit is its lower-case literal, sep the     *)
(* class of the separator it skips ("wdd" is [\s.-], "w" is [\s]).         *)
(***************************************************************************)
VOLUME_PATTERNS ==
    << [lit |-> <<"v">>, sep |-> "wdd"],
       [lit |-> <<"v", "o", "l">>, sep |-> "wdd"],
       [lit |-> <<"v", "o", "l", "u", "m", "e">>, sep |-> "wdd"],
       [lit |-> <<"l", "n">>, sep |-> "w"] >>

PART_PATTERNS ==
    << [lit |-> <<"p", "a", "r", "t">>, sep |-> "wdd"],
       [lit |-> <<"p", "t">>, sep |-> "wdd"] >>

SIDESTORY_PATTERNS ==
    << [lit |-> <<"s", "s">>, sep |-> "wdd"],
       [lit |-> <<"e", "x", "t", "r", "a">>, sep |-> "wdd"],
       [lit |-> <<"s", "p", "e", "c", "i", "a", "l">>, sep |-> "wdd"] >>

\* Membership in a pattern's separator class.
IsSep(pat, c) ==
    IF pat.sep = "wdd" THEN IsSpace(c) \/ c = "." \/ c = "-" ELSE IsSpace(c)

\* The result of a search that found nothing (re's None).
NoMatch == [start |-> 0, group |-> None]

RECURSIVE SkipSep(_, _, _)
\* The greedy sep*: the first position at or after i that is no separator.
SkipSep(pat, s, i) ==
    IF i <= Len(s) /\ IsSep(pat, s[i]) THEN SkipSep(pat, s, i + 1) ELSE i

RECURSIVE DigitsEnd(_, _)
\* The greedy \d+ from a digit at i: the position of the run's last digit.
DigitsEnd(s, i) ==
    IF i + 1 <= Len(s) /\ IsDigit(s[i + 1]) THEN DigitsEnd(s, i + 1) ELSE i

\* The end of \d+(\.\d+)? starting at the digit at position j.
NumberEnd(s, j) ==
    LET e == DigitsEnd(s, j)
    IN  IF e + 2 <= Len(s) /\ s[e + 1] = "." /\ IsDigit(s[e + 2])
        THEN DigitsEnd(s, e + 2)
        ELSE e

\* The literal of pat stands at position i of s, case folded.
LitAt(pat, s, i) ==
    /\ i + Len(pat.lit) - 1 <= Len(s)
    /\ \A k \in 1..Len(pat.lit) : LowerChar(s[i + k - 1]) = pat.lit[k]

\* pat matches s with the match starting at position i.
MatchesAt(pat, s, i) ==
    /\ LitAt(pat, s, i)
    /\ LET j == SkipSep(pat, s, i + Len(pat.lit))
       IN  j <= Len(s) /\ IsDigit(s[j])

\* group(1) of the match of pat that starts at i.
GroupAt(pat, s, i) ==
    LET j == SkipSep(pat, s, i + Len(pat.lit))
    IN  SubSeq(s, j, NumberEnd(s, j))

RECURSIVE SearchFrom(_, _, _)
\* pattern.search: the leftmost match at or after position i.
SearchFrom(pat, s, i) ==
    IF i > Len(s) THEN NoMatch
    ELSE IF MatchesAt(pat, s, i) THEN [start |-> i, group |-> GroupAt(pat, s, i)]
    ELSE SearchFrom(pat, s, i + 1)

\* pattern.search(filename)
Search(pat, s) == SearchFrom(pat, s, 1)

\* \b between positions i-1 and i of s.
Boundary(s, i) ==
    LET before == i > 1 /\ IsWord(s[i - 1])
        after == i <= Len(s) /\ IsWord(s[i])
    IN  before # after

\* BACKUP_VOLUME_PATTERN, \b\d+(?:\.\d+)?\b, tried at position i: the end of
\* the match, or 0.  The fraction is given up when no \b follows it.
BackupEndAt(s, i) ==
    IF ~(IsDigit(s[i]) /\ Boundary(s, i)) THEN 0
    ELSE LET e == DigitsEnd(s, i)
             f == NumberEnd(s, i)
         IN  IF f > e /\ Boundary(s, f + 1) THEN f
             ELSE IF Boundary(s, e + 1) THEN e
             ELSE 0

RECURSIVE BackupSearchFrom(_, _)
\* BACKUP_VOLUME_PATTERN.search: the leftmost match; it has no group 1, so
\* the IndexError handler returns group(0).
BackupSearchFrom(s, i) ==
    IF i > Len(s) THEN NoMatch
    ELSE IF BackupEndAt(s, i) # 0
         THEN [start |-> i, group |-> SubSeq(s, i, BackupEndAt(s, i))]
    ELSE BackupSearchFrom(s, i + 1)

RECURSIVE FirstMatch(_, _, _)
\* "for pattern in patterns: match = pattern.search(filename); if match:"
\* the match of the first pattern, from index k of the list, that matches.
FirstMatch(patterns, s, k) ==
    IF k > Len(patterns) THEN NoMatch
    ELSE IF Search(patterns[k], s) # NoMatch THEN Search(patterns[k], s)
    ELSE FirstMatch(patterns, s, k + 1)

\* Some pattern of the list has its leftmost match on the wanted side of
\* position p ("<" before, ">" after).
MarkerOnSide(patterns, s, p, side) ==
    \E k \in 1..Len(patterns) :
        LET volume_match == Search(patterns[k], s)
        IN  /\ volume_match # NoMatch
            /\ IF side = "<" THEN volume_match.start < p
                             ELSE volume_match.start > p

\* extract_series_part_number without its side-story loop (lines 115-118).
extract_series_part_number_NoSideStory(filename) ==
    LET match == FirstMatch(PART_PATTERNS, filename, 1)
    IN  IF match = NoMatch THEN None
        ELSE IF MarkerOnSide(VOLUME_PATTERNS, filename, match.start, "<") THEN None
        ELSE match.group

\* extract_series_part_number
extract_series_part_number(filename) ==
    LET match == FirstMatch(PART_PATTERNS, filename, 1)
    IN  IF match = NoMatch THEN None
        ELSE IF MarkerOnSide(VOLUME_PATTERNS, filename, match.start, "<") THEN None
        ELSE IF MarkerOnSide(SIDESTORY_PATTERNS, filename, match.start, "<") THEN None
        ELSE match.group

\* extract_volume_part_number with the comparison of its twin, "<" (lines
\* 142 and 147 left as copied from lines 112 and 117).
extract_volume_part_number_Before(filename) ==
    LET match == FirstMatch(PART_PATTERNS, filename, 1)
    IN  IF match = NoMatch THEN None
        ELSE IF MarkerOnSide(VOLUME_PATTERNS, filename, match.start, "<") THEN None
        ELSE IF MarkerOnSide(SIDESTORY_PATTERNS, filename, match.start, "<") THEN None
        ELSE match.group

\* extract_volume_part_number without its volume-pattern loop (lines 140-143).
extract_volume_part_number_NoVolume(filename) ==
    LET match == FirstMatch(PART_PATTERNS, filename, 1)
    IN  IF match = NoMatch THEN None
        ELSE IF MarkerOnSide(SIDESTORY_PATTERNS, filename, match.start, ">") THEN None
        ELSE match.group

\* extract_volume_part_number
extract_volume_part_number(filename) ==
    LET match == FirstMatch(PART_PATTERNS, filename, 1)
    IN  IF match = NoMatch THEN None
        ELSE IF MarkerOnSide(VOLUME_PATTERNS, filename, match.start, ">") THEN None
        ELSE IF MarkerOnSide(SIDESTORY_PATTERNS, filename, match.start, ">") THEN None
        ELSE match.group

\* The fallback of extract_volume_number with its guard (line 179) dropped.
BackupAllowed_Always(filename) == TRUE

\* The guard of the bare-number fallback of extract_volume_number.
BackupAllowed(filename) == ~Truthy(extract_series_part_number(filename))

\* extract_volume_number
extract_volume_number(filename) ==
    IF FirstMatch(VOLUME_PATTERNS, filename, 1) # NoMatch
    THEN FirstMatch(VOLUME_PATTERNS, filename, 1).group
    ELSE IF FirstMatch(SIDESTORY_PATTERNS, filename, 1) # NoMatch
    THEN FirstMatch(SIDESTORY_PATTERNS, filename, 1).group
    ELSE IF BackupAllowed(filename) /\ BackupSearchFrom(filename, 1) # NoMatch
    THEN BackupSearchFrom(filename, 1).group
    ELSE None

(***************************************************************************)
(* Filenames the extractors are run on: up to MaxSegments segments and     *)
(* the ".epub" suffix that list_epub_files requires.                       *)
(***************************************************************************)
Segments ==
    { <<"v", "1">>,
      <<"V", "o", "l", " ", "2">>,
      <<"v", "o", "l", "u", "m", "e", "3">>,
      <<"L", "N", " ", "1">>,
      <<"P", "a", "r", "t", " ", "2">>,
      <<"p", "t", ".", "1">>,
      <<"s", "s", "1">>,
      <<"e", "x", "t", "r", "a", " ", "2">>,
      <<"s", "p", "e", "c", "i", "a", "l", "-", "1">>,
      <<"5">>,
      <<"2", ".", "5">>,
      <<" ">>,
      <<".">>,
      <<"x">> }

EpubSuffix == <<".", "e", "p", "u", "b">>

RECURSIVE Stems(_)
\* The concatenations of at most n segments.
Stems(n) ==
    IF n = 0 THEN {<<>>}
    ELSE Stems(n - 1) \cup {s \o g : s \in Stems(n - 1), g \in Segments}

Filenames == {s \o EpubSuffix : s \in Stems(MaxSegments)}

(***************************************************************************)
(* The folder classifier.                                                  *)
(***************************************************************************)
\* "sub in s"
Contains(s, sub) ==
    \E i \in 1..(Len(s) - Len(sub) + 1) : SubSeq(s, i, i + Len(sub) - 1) = sub

SideStory == <<"S", "i", "d", "e", " ", "S", "t", "o", "r", "y">>
ShortStory == <<"S", "h", "o", "r", "t", " ", "S", "t", "o", "r", "y">>
FanTranslation == <<"F", "a", "n", " ", "T", "r", "a", "n", "s", "l", "a", "t", "i", "o", "n">>
OfficialTranslation == <<"O", "f", "f", "i", "c", "i", "a", "l", " ", "T", "r", "a", "n", "s", "l", "a", "t", "i", "o", "n">>

\* is_side_story_folder
is_side_story_folder(path_relative) ==
    \E folder_name \in {<<"s", "i", "d", "e", " ", "s", "t", "o", "r", "y">>,
                        <<"s", "i", "d", "e", " ", "s", "t", "o", "r", "i", "e", "s">>} :
        Contains(Lower(path_relative), folder_name)

\* is_short_story_folder
is_short_story_folder(path_relative) ==
    \E folder_name \in {<<"s", "h", "o", "r", "t", " ", "s", "t", "o", "r", "y">>,
                        <<"s", "h", "o", "r", "t", " ", "s", "t", "o", "r", "i", "e", "s">>} :
        Contains(Lower(path_relative), folder_name)

\* classify_epub_file_type with the "official" test ahead of the "fan" test
\* (lines 405-408 exchanged).
classify_epub_file_type_OfficialFirst(path_relative) ==
    IF is_side_story_folder(path_relative) THEN SideStory
    ELSE IF is_short_story_folder(path_relative) THEN ShortStory
    ELSE IF Contains(Lower(path_relative), <<"o", "f", "f", "i", "c", "i", "a", "l">>) THEN OfficialTranslation
    ELSE IF Contains(Lower(path_relative), <<"f", "a", "n">>) THEN FanTranslation
    ELSE None

\* classify_epub_file_type
classify_epub_file_type(path_relative) ==
    IF is_side_story_folder(path_relative) THEN SideStory
    ELSE IF is_short_story_folder(path_relative) THEN ShortStory
    ELSE IF Contains(Lower(path_relative), <<"f", "a", "n">>) THEN FanTranslation
    ELSE IF Contains(Lower(path_relative), <<"o", "f", "f", "i", "c", "i", "a", "l">>) THEN OfficialTranslation
    ELSE None

\* convert_classification_to_plural
convert_classification_to_plural(c) ==
    IF c = SideStory THEN <<"S", "i", "d", "e", " ", "S", "t", "o", "r", "i", "e", "s">>
    ELSE IF c = ShortStory THEN <<"S", "h", "o", "r", "t", " ", "S", "t", "o", "r", "i", "e", "s">>
    ELSE IF c = FanTranslation THEN <<"F", "a", "n", " ", "T", "r", "a", "n", "s", "l", "a", "t", "i", "o", "n", "s">>
    ELSE IF c = OfficialTranslation THEN <<"O", "f", "f", "i", "c", "i", "a", "l", " ", "T", "r", "a", "n", "s", "l", "a", "t", "i", "o", "n", "s">>
    ELSE c

\* Folder names the classifier is run on.
FolderNames ==
    { <<"O", "f", "f", "i", "c", "i", "a", "l">>,
      <<"L", "i", "g", "h", "t", " ", "N", "o", "v", "e", "l">>,
      <<"S", "i", "d", "e", " ", "S", "t", "o", "r", "y">>,
      <<"S", "i", "d", "e", " ", "S", "t", "o", "r", "i", "e", "s">>,
      <<"S", "h", "o", "r", "t", " ", "S", "t", "o", "r", "i", "e", "s">>,
      <<"F", "A", "N">>,
      <<"E", "P", "U", "B">>,
      <<"P", "a", "r", "t", " ", "1">> }

RECURSIVE RelPathsOfDepth(_)
\* The relative paths of exactly n folder names, joined by "/".
RelPathsOfDepth(n) ==
    IF n = 1 THEN FolderNames
    ELSE {p \o <<"/">> \o f : p \in RelPathsOfDepth(n - 1), f \in FolderNames}

\* os.path.relpath(epub_folder_path, series_folder_path): "." for the series
\* folder itself, else the folders below it.
RelPaths == {<<".">>} \cup UNION {RelPathsOfDepth(n) : n \in 1..MaxDepth}

(***************************************************************************)
(* Paths (pathlib).                                                        *)
(***************************************************************************)
RECURSIVE LastDot(_, _)
\* name.rfind('.') among the first k characters, 1-based; 0 if there is none.
LastDot(name, k) ==
    IF k = 0 THEN 0 ELSE IF name[k] = "." THEN k ELSE LastDot(name, k - 1)

\* Path(name).suffix: from the last dot, unless it is the first or the last
\* character.
PathSuffix(name) ==
    LET i == LastDot(name, Len(name))
    IN  IF 1 < i /\ i < Len(name) THEN SubSeq(name, i, Len(name)) ELSE <<>>

\* Path(name).stem
PathStem(name) ==
    LET i == LastDot(name, Len(name))
    IN  IF 1 < i /\ i < Len(name) THEN SubSeq(name, 1, i - 1) ELSE name

\* copy_epub_files, lines 458-462: the destination filename.
DestName(name, c) ==
    IF Truthy(c)
    THEN PathStem(name) \o <<" ", "-", " ">> \o c \o PathSuffix(name)
    ELSE PathStem(name) \o PathSuffix(name)

\* copy_epub_file, lines 204-205: path.stem + '.temp.epub'.
TempName(dest_name) == PathStem(dest_name) \o <<".", "t", "e", "m", "p", ".", "e", "p", "u", "b">>

\* copy_epub_file, lines 211-214: the series name given to the tagger.
SeriesName(series_folder_name, c) ==
    IF Truthy(c)
    THEN series_folder_name \o <<" ", "-", " ">> \o convert_classification_to_plural(c)
    ELSE series_folder_name

\* os.path.join of a folder and a name.
Join(folder, name) == folder \o <<"/">> \o name

(***************************************************************************)
(* String formatting.                                                      *)
(***************************************************************************)
RECURSIVE IntToStr(_)
\* str(n) of a natural number, as an f-string formats it.
IntToStr(n) ==
    LET digit == CASE n % 10 = 0 -> "0" [] n % 10 = 1 -> "1" [] n % 10 = 2 -> "2"
                   [] n % 10 = 3 -> "3" [] n % 10 = 4 -> "4" [] n % 10 = 5 -> "5"
                   [] n % 10 = 6 -> "6" [] n % 10 = 7 -> "7" [] n % 10 = 8 -> "8"
                   [] OTHER -> "9"
    IN  IF n < 10 THEN <<digit>> ELSE IntToStr(n \div 10) \o <<digit>>

\* The series title of the command: f'{series_title} Part {series_part_num}'.
SeriesTitle(series_title, part_num) ==
    IF Truthy(part_num)
    THEN series_title \o <<" ", "P", "a", "r", "t", " ">> \o part_num
    ELSE series_title

\* The index of the command.  With a volume part the code appends
\* f'{volume_num}.{volume_part_num}' to an index that already is volume_num.
IndexArg(volume_num, part_num, position) ==
    IF volume_num # None
    THEN IF Truthy(part_num)
         THEN volume_num \o (volume_num \o <<".">> \o part_num)
         ELSE volume_num
    ELSE <<"1", ".">> \o IntToStr(position)

\* The ebook-meta command: ['ebook-meta', path, '--series', title, '--index', index].
Command(path, series_title, s_part_num, volume_num, v_part_num, position) ==
    [path |-> path,
     series |-> SeriesTitle(series_title, s_part_num),
     index |-> IndexArg(volume_num, v_part_num, position)]

\* No command built yet.
NoCommand == [path |-> None, series |-> None, index |-> None]

(***************************************************************************)
(* State.                                                                  *)
(***************************************************************************)
VARIABLES pc, epub_filename, vol_num, series_part_num, volume_part_num,
          folder_index, command, meta_calls,
          epub_folder_path_relative, classification,
          src_state, dest_state, same_path, source, run, series_idx,
          dest_series_folders, dest_files, locked, errors_printed,
          meta_failures, copy_calls, processed, exit_status, diagnostic

\* pc               the position of the script
\* epub_filename    copy_epub_file: os.path.basename(epub_file_path)
\* vol_num, series_part_num, volume_part_num
\*                  copy_epub_file: the extracted fields
\* folder_index     copy_epub_files: the index of the enumerate loop
\* command          set_epub_series_and_index: the command last built
\* meta_calls       the ebook-meta invocations made so far (subprocess.run)
\* epub_folder_path_relative, classification
\*                  list_epub_files: the folder classified and its label
\* src_state, dest_state
\*                  what the source and target paths are: "dir", "file" or
\*                  "missing"
\* same_path        os.path.abspath of the two arguments is one path
\* source           os.listdir(src): the entries of the source, in order
\* run              which run of the script this is
\* series_idx       copy_epub_files: the position of the series loop
\* dest_series_folders
\*                  the series folders that exist in the target
\* dest_files       the files that exist in the target
\* locked           another process holds the temp file open
\* errors_printed   the 'Error:' lines this run has printed
\* meta_failures    the ebook-meta invocations of this run that returned
\*                  non-zero
\* copy_calls       the shutil.copy and shutil.copyfile calls made so far
\* processed        the candidates the file loop of this run has been through
\* exit_status      the exit status of the process, -1 while it runs
\* diagnostic       what the process printed on its way out

vars == <<pc, epub_filename, vol_num, series_part_num, volume_part_num,
          folder_index, command, meta_calls,
          epub_folder_path_relative, classification,
          src_state, dest_state, same_path, source, run, series_idx,
          dest_series_folders, dest_files, locked, errors_printed,
          meta_failures, copy_calls, processed, exit_status, diagnostic>>

fieldVars == <<epub_filename, vol_num, series_part_num, volume_part_num>>

classifyVars == <<epub_folder_path_relative, classification>>

runVars == <<src_state, dest_state, same_path, source, run, series_idx,
             dest_series_folders, dest_files, locked, errors_printed,
             meta_failures, copy_calls, processed, exit_status, diagnostic>>

\* The series title the single-file specifications tag with.
SeriesS == <<"S">>

\* The path the single-file specifications tag.
TempT == <<"t">>

\* The state of the parts a specification does not exercise.
IdleFields ==
    /\ epub_filename = None
    /\ vol_num = None
    /\ series_part_num = None
    /\ volume_part_num = None

IdleClassify ==
    /\ epub_folder_path_relative = None
    /\ classification = None

IdleRun ==
    /\ src_state = "dir"
    /\ dest_state = "dir"
    /\ same_path = FALSE
    /\ source = <<>>
    /\ run = 1
    /\ series_idx = 1
    /\ dest_series_folders = {}
    /\ dest_files = {}
    /\ locked = FALSE
    /\ errors_printed = 0
    /\ meta_failures = 0
    /\ copy_calls = {}
    /\ processed = {}
    /\ exit_status = -1
    /\ diagnostic = "none"

(***************************************************************************)
(* The field extraction and command construction of copy_epub_file and     *)
(* set_epub_series_and_index, on any filename.                             *)
(***************************************************************************)
InitExtract ==
    /\ pc = "extract"
    /\ epub_filename \in Filenames
    /\ vol_num = None
    /\ series_part_num = None
    /\ volume_part_num = None
    /\ folder_index \in 0..1
    /\ command = NoCommand
    /\ meta_calls = {}
    /\ IdleClassify
    /\ IdleRun

\* copy_epub_file, lines 207-210.
ExtractFields ==
    /\ pc = "extract"
    /\ vol_num' = extract_volume_number(epub_filename)
    /\ series_part_num' = extract_series_part_number(epub_filename)
    /\ volume_part_num' = extract_volume_part_number(epub_filename)
    /\ pc' = "extracted"
    /\ UNCHANGED <<epub_filename, folder_index, command, meta_calls,
                   classifyVars, runVars>>

\* set_epub_series_and_index, lines 76-89, as called at lines 216-223.
BuildCommand ==
    /\ pc = "extracted"
    /\ command' = Command(TempT, SeriesS, series_part_num, vol_num,
                          volume_part_num, folder_index)
    /\ pc' = "built"
    /\ UNCHANGED <<fieldVars, folder_index, meta_calls, classifyVars, runVars>>

NextExtract == ExtractFields \/ BuildCommand

SpecExtract == InitExtract /\ [][NextExtract]_vars

(***************************************************************************)
(* The enumerate loop of copy_epub_files over the candidates of one        *)
(* series, with the volume number extracted from each candidate's filename *)
(* as input: what each position's ebook-meta invocation is given.          *)
(***************************************************************************)
InitIndex ==
    /\ pc = "index_loop"
    /\ IdleFields
    /\ folder_index = 0
    /\ command = NoCommand
    /\ meta_calls = {}
    /\ IdleClassify
    /\ IdleRun

\* Lines 457-469 with the destination absent: copy_epub_file is called with
\* the position and set_epub_series_and_index runs ebook-meta (lines 76-94).
IndexTag ==
    /\ pc = "index_loop"
    /\ folder_index <= MaxFolderIndex
    /\ \E v \in {None, <<"2">>} :
        /\ vol_num' = v
        /\ command' = Command(TempT, SeriesS, None, v, None, folder_index)
        /\ meta_calls' = meta_calls \cup
               {[run |-> 1, series_folder |-> SeriesS, pos |-> folder_index,
                 volume_num |-> v, command |-> command']}
    /\ folder_index' = folder_index + 1
    /\ UNCHANGED <<pc, epub_filename, series_part_num, volume_part_num,
                   classifyVars, runVars>>

\* Lines 465-467: the destination exists, the position is passed over.
IndexSkip ==
    /\ pc = "index_loop"
    /\ folder_index <= MaxFolderIndex
    /\ folder_index' = folder_index + 1
    /\ UNCHANGED <<pc, fieldVars, command, meta_calls, classifyVars, runVars>>

NextIndex == IndexTag \/ IndexSkip

SpecIndex == InitIndex /\ [][NextIndex]_vars

(***************************************************************************)
(* The classifier of list_epub_files, on any relative folder path.         *)
(***************************************************************************)
InitClassify ==
    /\ pc = "classify"
    /\ IdleFields
    /\ folder_index = 0
    /\ command = NoCommand
    /\ meta_calls = {}
    /\ epub_folder_path_relative \in RelPaths
    /\ classification = None
    /\ IdleRun

\* list_epub_files, line 391.
Classify ==
    /\ pc = "classify"
    /\ classification' = classify_epub_file_type(epub_folder_path_relative)
    /\ pc' = "classified"
    /\ UNCHANGED <<fieldVars, folder_index, command, meta_calls,
                   epub_folder_path_relative, runVars>>

NextClassify == Classify

SpecClassify == InitClassify /\ [][NextClassify]_vars

(***************************************************************************)
(* The source directory.  A series entry is a folder holding epub files at *)
(* its root and, possibly, one folder whose name contains "fan"; when that *)
(* name also contains "part" find_series_epub_files lists the folder       *)
(* twice, as the fan folder (line 313) and as a part folder (line 369).    *)
(***************************************************************************)
NameA == <<"a", ".", "e", "p", "u", "b">>
NameT == <<"a", ".", "t", "e", "m", "p", ".", "e", "p", "u", "b">>

FanFolder == <<"F", "a", "n">>
FanPartFolder == <<"F", "a", "n", " ", "P", "a", "r", "t">>

\* The epub files of a series root, in os.listdir order.
RootListings == {<<>>, <<NameA>>, <<NameA, NameT>>, <<NameT, NameA>>}

\* The entries os.listdir(src) may hold: series folders, and a plain file.
Entries ==
    [is_dir : {TRUE}, root : RootListings, fan_folder : {None}, fan : {<<>>}]
    \cup [is_dir : {TRUE}, root : RootListings,
          fan_folder : {FanFolder, FanPartFolder}, fan : {<<NameA>>}]
    \cup [is_dir : {FALSE}, root : {<<>>}, fan_folder : {None}, fan : {<<>>}]

RECURSIVE Listings(_)
\* The listings of exactly n entries.
Listings(n) ==
    IF n = 0 THEN {<<>>}
    ELSE {l \o <<e>> : l \in Listings(n - 1), e \in Entries}

\* os.listdir(src) of a source directory of one to MaxSeries entries.
SourceListings == UNION {Listings(n) : n \in 1..MaxSeries}

\* The name of the k-th entry of the source.
SeriesFolder(k) == <<"S">> \o IntToStr(k)

\* list_epub_files: the files of a folder, each with the folder's
\* classification.
list_epub_files(folder, names) ==
    [k \in 1..Len(names) |->
        [folder |-> folder, name |-> names[k],
         classification |-> classify_epub_file_type(folder)]]

\* find_part_folders: 'part' in the lower-cased folder name.
IsPartFolder(folder) == folder # None /\ Contains(Lower(folder), <<"p", "a", "r", "t">>)

\* find_series_epub_files on a series entry: the root (line 293), the fan
\* folder (lines 312-313), and the part folders (lines 344-369).
find_series_epub_files(entry) ==
    list_epub_files(<<".">>, entry.root)
    \o (IF entry.fan_folder # None
        THEN list_epub_files(entry.fan_folder, entry.fan) ELSE <<>>)
    \o (IF IsPartFolder(entry.fan_folder)
        THEN list_epub_files(entry.fan_folder, entry.fan) ELSE <<>>)

\* The candidates of the series the loop is in.
Candidates == find_series_epub_files(source[series_idx])

\* The candidate the file loop is at.
Candidate == Candidates[folder_index + 1]

\* dest_epub_path of the candidate c of series k, relative to the target.
DestPath(k, c) == Join(SeriesFolder(k), DestName(c.name, c.classification))

\* temp_epub_file_path of the candidate c of series k.
TempPath(k, c) ==
    Join(SeriesFolder(k), TempName(DestName(c.name, c.classification)))

\* os.path.exists of a path below the target.
Exists(path) ==
    \/ path \in dest_files
    \/ same_path /\ \E k \in 1..Len(source) : \E j \in 1..Len(source[k].root) :
           path = Join(SeriesFolder(k), source[k].root[j])

\* is_locked(filepath): None for a missing file, else whether the open fails.
is_locked(path) == Exists(path) /\ locked

(***************************************************************************)
(* main and copy_epub_files.                                               *)
(***************************************************************************)
Init ==
    /\ pc = "main"
    /\ IdleFields
    /\ folder_index = 0
    /\ command = NoCommand
    /\ meta_calls = {}
    /\ IdleClassify
    /\ src_state \in {"dir", "file", "missing"}
    /\ same_path \in BOOLEAN
    /\ dest_state \in {"dir", "file", "missing"}
    /\ same_path => dest_state = src_state
    /\ IF src_state = "dir" THEN source \in SourceListings ELSE source = <<>>
    /\ run = 1
    /\ series_idx = 1
    /\ dest_series_folders = {}
    /\ dest_files = {}
    /\ locked = FALSE
    /\ errors_printed = 0
    /\ meta_failures = 0
    /\ copy_calls = {}
    /\ processed = {}
    /\ exit_status = -1
    /\ diagnostic = "none"

\* copy_epub_files, lines 431-436, and the handler of main, lines 544-546.
CheckSource ==
    /\ pc = "main"
    /\ IF src_state # "dir"
       THEN /\ pc' = "exited"
            /\ exit_status' = 1
            /\ diagnostic' = "Source directory does not exist"
       ELSE /\ pc' = "make_dest"
            /\ UNCHANGED <<exit_status, diagnostic>>
    /\ UNCHANGED <<fieldVars, folder_index, command, meta_calls, classifyVars,
                   src_state, dest_state, same_path, source, run, series_idx,
                   dest_series_folders, dest_files, locked, errors_printed,
                   meta_failures, copy_calls, processed>>

\* copy_epub_files, lines 438-439.
MakeDest ==
    /\ pc = "make_dest"
    /\ dest_state' = IF dest_state = "missing" THEN "dir" ELSE dest_state
    /\ series_idx' = 1
    /\ pc' = "series"
    /\ UNCHANGED <<fieldVars, folder_index, command, meta_calls, classifyVars,
                   src_state, same_path, source, run,
                   dest_series_folders, dest_files, locked, errors_printed,
                   meta_failures, copy_calls, processed, exit_status, diagnostic>>

\* The end of the series loop: copy_epub_files and main return.
Finish ==
    /\ pc = "series"
    /\ series_idx > Len(source)
    /\ pc' = "exited"
    /\ exit_status' = 0
    /\ UNCHANGED <<fieldVars, folder_index, command, meta_calls, classifyVars,
                   src_state, dest_state, same_path, source, run, series_idx,
                   dest_series_folders, dest_files, locked, errors_printed,
                   meta_failures, copy_calls, processed, diagnostic>>

\* copy_epub_files, lines 441-453, for one entry of the source.  os.makedirs
\* below a target that is a file raises NotADirectoryError, which nothing
\* catches: the interpreter prints the traceback and exits with status 1.
NextSeries ==
    /\ pc = "series"
    /\ series_idx <= Len(source)
    /\ IF ~source[series_idx].is_dir
       THEN /\ series_idx' = series_idx + 1
            /\ UNCHANGED <<pc, folder_index, dest_series_folders, exit_status,
                           diagnostic>>
       ELSE IF ~same_path /\ series_idx \notin dest_series_folders
                /\ dest_state = "file"
       THEN /\ pc' = "exited"
            /\ exit_status' = 1
            /\ diagnostic' = "Traceback: NotADirectoryError"
            /\ UNCHANGED <<series_idx, folder_index, dest_series_folders>>
       ELSE /\ dest_series_folders' =
                   IF same_path THEN dest_series_folders
                   ELSE dest_series_folders \cup {series_idx}
            /\ IF Len(Candidates) = 0
               THEN /\ series_idx' = series_idx + 1
                    /\ UNCHANGED <<pc, folder_index>>
               ELSE /\ pc' = "file"
                    /\ folder_index' = 0
                    /\ UNCHANGED series_idx
            /\ UNCHANGED <<exit_status, diagnostic>>
    /\ UNCHANGED <<fieldVars, command, meta_calls, classifyVars,
                   src_state, dest_state, same_path, source, run,
                   dest_files, locked, errors_printed,
                   meta_failures, copy_calls, processed>>

\* The end of the file loop of a series.
EndSeries ==
    /\ pc = "file"
    /\ folder_index >= Len(Candidates)
    /\ series_idx' = series_idx + 1
    /\ pc' = "series"
    /\ UNCHANGED <<fieldVars, folder_index, command, meta_calls, classifyVars,
                   src_state, dest_state, same_path, source, run,
                   dest_series_folders, dest_files, locked, errors_printed,
                   meta_failures, copy_calls, processed, exit_status, diagnostic>>

\* copy_epub_files, lines 457-467: a candidate whose destination exists.
SkipFile ==
    /\ pc = "file"
    /\ folder_index < Len(Candidates)
    /\ Exists(DestPath(series_idx, Candidate))
    /\ processed' = processed \cup {<<series_idx, folder_index>>}
    /\ folder_index' = folder_index + 1
    /\ UNCHANGED <<pc, fieldVars, command, meta_calls, classifyVars,
                   src_state, dest_state, same_path, source, run, series_idx,
                   dest_series_folders, dest_files, locked, errors_printed,
                   meta_failures, copy_calls, exit_status, diagnostic>>

\* copy_epub_files, lines 457-469, and copy_epub_file, lines 204-214: the
\* destination is absent, the source is copied onto the temp file and the
\* fields are extracted from its name.
CopyToTemp ==
    /\ pc = "file"
    /\ folder_index < Len(Candidates)
    /\ ~Exists(DestPath(series_idx, Candidate))
    /\ dest_files' = dest_files \cup {TempPath(series_idx, Candidate)}
    /\ copy_calls' = copy_calls \cup
           {[run |-> run, call |-> "copy", to |-> TempPath(series_idx, Candidate)]}
    /\ epub_filename' = Candidate.name
    /\ vol_num' = extract_volume_number(Candidate.name)
    /\ series_part_num' = extract_series_part_number(Candidate.name)
    /\ volume_part_num' = extract_volume_part_number(Candidate.name)
    /\ pc' = "meta"
    /\ UNCHANGED <<folder_index, command, meta_calls, classifyVars,
                   src_state, dest_state, same_path, source, run, series_idx,
                   dest_series_folders, locked, errors_printed,
                   meta_failures, processed, exit_status, diagnostic>>

\* set_epub_series_and_index had subprocess.run been called with check=True:
\* a non-zero rc raises CalledProcessError, which nothing catches.
AfterMeta_Raise(rc) ==
    /\ UNCHANGED errors_printed
    /\ IF rc # 0
       THEN /\ pc' = "exited"
            /\ exit_status' = 1
            /\ diagnostic' = "Traceback: CalledProcessError"
       ELSE /\ pc' = "copyfile"
            /\ UNCHANGED <<exit_status, diagnostic>>

\* What set_epub_series_and_index does when ebook-meta returned rc: print
\* the error text if rc is not 0, and return (lines 96-98).  The tool's
\* stderr is taken to be UTF-8 text, so that its decode does not raise.
AfterMeta(rc) ==
    /\ errors_printed' = IF rc # 0 THEN errors_printed + 1 ELSE errors_printed
    /\ pc' = "copyfile"
    /\ UNCHANGED <<exit_status, diagnostic>>

\* set_epub_series_and_index, lines 76-98: once the temp file is not locked
\* the command is run; its return code is the tool's.
RunMeta ==
    /\ pc = "meta"
    /\ ~is_locked(TempPath(series_idx, Candidate))
    /\ command' = Command(TempPath(series_idx, Candidate),
                          SeriesName(SeriesFolder(series_idx), Candidate.classification),
                          series_part_num, vol_num, volume_part_num, folder_index)
    /\ meta_calls' = meta_calls \cup
           {[run |-> run, series_folder |-> SeriesFolder(series_idx),
             pos |-> folder_index, volume_num |-> vol_num, command |-> command']}
    /\ \E rc \in {0, 1} :
           /\ meta_failures' = IF rc # 0 THEN meta_failures + 1 ELSE meta_failures
           /\ AfterMeta(rc)
    /\ UNCHANGED <<fieldVars, folder_index, classifyVars,
                   src_state, dest_state, same_path, source, run, series_idx,
                   dest_series_folders, dest_files, locked,
                   copy_calls, processed>>

\* copy_epub_file, line 225: shutil.copyfile(temp_epub_file, dest_epub_path).
\* No probe precedes it; 'locked' is what is_locked probes, a failing open for
\* appending, and copyfile only reads the temp file.
CopyFile ==
    /\ pc = "copyfile"
    /\ dest_files' = dest_files \cup {DestPath(series_idx, Candidate)}
    /\ copy_calls' = copy_calls \cup
           {[run |-> run, call |-> "copyfile", to |-> DestPath(series_idx, Candidate)]}
    /\ pc' = "remove"
    /\ UNCHANGED <<fieldVars, folder_index, command, meta_calls, classifyVars,
                   src_state, dest_state, same_path, source, run, series_idx,
                   dest_series_folders, locked, errors_printed,
                   meta_failures, processed, exit_status, diagnostic>>

\* copy_epub_file, lines 226-228: once the temp file is not locked it is
\* removed; the loop moves to the next candidate.
RemoveTemp ==
    /\ pc = "remove"
    /\ ~is_locked(TempPath(series_idx, Candidate))
    /\ dest_files' = dest_files \ {TempPath(series_idx, Candidate)}
    /\ processed' = processed \cup {<<series_idx, folder_index>>}
    /\ folder_index' = folder_index + 1
    /\ pc' = "file"
    /\ UNCHANGED <<fieldVars, command, meta_calls, classifyVars,
                   src_state, dest_state, same_path, source, run, series_idx,
                   dest_series_folders, locked, errors_printed,
                   meta_failures, copy_calls, exit_status, diagnostic>>

\* Another process opens the temp file, or lets go of it (what is_locked,
\* lines 43-63, probes).
ExternalLock ==
    /\ pc \in {"meta", "copyfile", "remove"}
    /\ locked' = ~locked
    /\ UNCHANGED <<pc, fieldVars, folder_index, command, meta_calls, classifyVars,
                   src_state, dest_state, same_path, source, run, series_idx,
                   dest_series_folders, dest_files, errors_printed,
                   meta_failures, copy_calls, processed, exit_status, diagnostic>>

\* The script is run again on the same source and target, the source
\* unchanged (it is, when the target is another directory).
RunAgain ==
    /\ pc = "exited"
    /\ exit_status = 0
    /\ ~same_path
    /\ run < MaxRuns
    /\ run' = run + 1
    /\ pc' = "main"
    /\ series_idx' = 1
    /\ folder_index' = 0
    /\ command' = NoCommand
    /\ epub_filename' = None
    /\ vol_num' = None
    /\ series_part_num' = None
    /\ volume_part_num' = None
    /\ errors_printed' = 0
    /\ meta_failures' = 0
    /\ processed' = {}
    /\ exit_status' = -1
    /\ diagnostic' = "none"
    /\ UNCHANGED <<meta_calls, classifyVars, src_state, dest_state, same_path,
                   source, dest_series_folders, dest_files, locked, copy_calls>>

Next ==
    \/ CheckSource
    \/ MakeDest
    \/ Finish
    \/ NextSeries
    \/ EndSeries
    \/ SkipFile
    \/ CopyToTemp
    \/ RunMeta
    \/ CopyFile
    \/ RemoveTemp
    \/ ExternalLock
    \/ RunAgain

Spec == Init /\ [][Next]_vars

(***************************************************************************)
(* What the claims speak of, stated over the text of the filename and not  *)
(* through the searches above.                                             *)
(***************************************************************************)
\* copy_epub_file has run the three extractors on epub_filename.
FieldsExtracted == pc \in {"extracted", "built"}

\* Some pattern of the list matches somewhere in s.
AnyMatch(patterns, s) ==
    \E k \in 1..Len(patterns) : \E i \in 1..Len(s) : MatchesAt(patterns[k], s, i)

\* A pattern of either marker list matches s starting at position i.
MarkerAt(s, i) ==
    \/ \E k \in 1..Len(VOLUME_PATTERNS) : MatchesAt(VOLUME_PATTERNS[k], s, i)
    \/ \E k \in 1..Len(SIDESTORY_PATTERNS) : MatchesAt(SIDESTORY_PATTERNS[k], s, i)

\* r has the shape digits, or digits "." digits.
IsDecimal(r) ==
    /\ Len(r) > 0
    /\ \A k \in 1..Len(r) : IsDigit(r[k]) \/ r[k] = "."
    /\ Cardinality({k \in 1..Len(r) : r[k] = "."}) <= 1
    /\ IsDigit(r[1]) /\ IsDigit(r[Len(r)])

\* The match of the first pattern of the list that matches at all starts at
\* position i: no earlier pattern matches anywhere, this one nowhere before.
FirstPatternStartsAt(patterns, s, i) ==
    \E k \in 1..Len(patterns) :
        /\ MatchesAt(patterns[k], s, i)
        /\ \A i2 \in 1..(i - 1) : ~MatchesAt(patterns[k], s, i2)
        /\ \A k2 \in 1..(k - 1) : \A i2 \in 1..Len(s) : ~MatchesAt(patterns[k2], s, i2)

\* r is the number captured by the first pattern of the list that matches.
IsFirstCapture(patterns, s, r) ==
    \E k \in 1..Len(patterns) : \E i \in 1..Len(s) :
        /\ MatchesAt(patterns[k], s, i)
        /\ \A i2 \in 1..(i - 1) : ~MatchesAt(patterns[k], s, i2)
        /\ \A k2 \in 1..(k - 1) : \A i2 \in 1..Len(s) : ~MatchesAt(patterns[k2], s, i2)
        /\ r = GroupAt(patterns[k], s, i)
        /\ IsDecimal(r)

\* s[i..e] is a decimal number standing on its own: a word boundary on
\* either side.
BareAt(s, i, e) ==
    /\ i <= e
    /\ Boundary(s, i)
    /\ Boundary(s, e + 1)
    /\ IsDecimal(Slice(s, i, e))

\* s holds a bare decimal number.
HasBare(s) == \E i \in 1..Len(s) : \E e \in i..Len(s) : BareAt(s, i, e)

\* r is the first bare decimal number of s (the longest at the first start).
IsFirstBare(s, r) ==
    \E i \in 1..Len(s) : \E e \in i..Len(s) :
        /\ BareAt(s, i, e)
        /\ r = Slice(s, i, e)
        /\ \A e2 \in (e + 1)..Len(s) : ~BareAt(s, i, e2)
        /\ \A i2 \in 1..(i - 1) : \A e2 \in i2..Len(s) : ~BareAt(s, i2, e2)

\* The start of the part match both part extractors work from.
PartStart(s) == CHOOSE i \in 1..Len(s) : FirstPatternStartsAt(PART_PATTERNS, s, i)

\* A marker pattern's first match lies after position p: it matches after p
\* and nowhere at or before p.
FirstMarkerMatchAfter(s, p) ==
    \E pat \in {VOLUME_PATTERNS[k] : k \in 1..Len(VOLUME_PATTERNS)}
               \cup {SIDESTORY_PATTERNS[k] : k \in 1..Len(SIDESTORY_PATTERNS)} :
        /\ \E i \in (p + 1)..Len(s) : MatchesAt(pat, s, i)
        /\ \A i \in 1..p : ~MatchesAt(pat, s, i)

(***************************************************************************)
(* C1.  extract_volume_number returns the capture of the first labelled    *)
(* volume pattern (v, vol, volume, LN) that matches; failing those, of the *)
(* first side-story pattern (ss, extra, special) that matches; failing     *)
(* those, the first bare decimal number of the filename, but only when     *)
(* extract_series_part_number returned None; otherwise None.               *)
(***************************************************************************)
C1_VolumeNumber ==
    FieldsExtracted =>
        IF AnyMatch(VOLUME_PATTERNS, epub_filename)
        THEN IsFirstCapture(VOLUME_PATTERNS, epub_filename, vol_num)
        ELSE IF AnyMatch(SIDESTORY_PATTERNS, epub_filename)
        THEN IsFirstCapture(SIDESTORY_PATTERNS, epub_filename, vol_num)
        ELSE IF series_part_num = None /\ HasBare(epub_filename)
        THEN IsFirstBare(epub_filename, vol_num)
        ELSE vol_num = None

\* A series part was extracted from a filename that holds a bare number and
\* no labelled or side-story marker: the fallback is suppressed.
C1_Witness ==
    /\ FieldsExtracted
    /\ ~AnyMatch(VOLUME_PATTERNS, epub_filename)
    /\ ~AnyMatch(SIDESTORY_PATTERNS, epub_filename)
    /\ HasBare(epub_filename)
    /\ series_part_num # None
    /\ vol_num = None

(***************************************************************************)
(* C2.  extract_series_part_number works from the match of the first part  *)
(* pattern (part, then pt) that matches: None if a volume or side-story    *)
(* pattern occurs before that match's start, the part number otherwise;    *)
(* None when no part pattern matches.                                      *)
(***************************************************************************)
C2_SeriesPart ==
    FieldsExtracted =>
        IF ~AnyMatch(PART_PATTERNS, epub_filename)
        THEN series_part_num = None
        ELSE IF \E i \in 1..(PartStart(epub_filename) - 1) : MarkerAt(epub_filename, i)
        THEN series_part_num = None
        ELSE IsFirstCapture(PART_PATTERNS, epub_filename, series_part_num)

\* A part match with a side-story marker, and no volume marker, before it.
C2_Witness ==
    /\ FieldsExtracted
    /\ AnyMatch(PART_PATTERNS, epub_filename)
    /\ ~AnyMatch(VOLUME_PATTERNS, epub_filename)
    /\ \E i \in 1..(PartStart(epub_filename) - 1) : MarkerAt(epub_filename, i)
    /\ series_part_num = None

(***************************************************************************)
(* C3.  As claimed: extract_volume_part_number returns None if any         *)
(* occurrence of a volume or side-story pattern starts after the part      *)
(* match's start, also when a marker stands both before and after it.      *)
(***************************************************************************)
C3_AnyOccurrenceAfter ==
    FieldsExtracted =>
        IF ~AnyMatch(PART_PATTERNS, epub_filename)
        THEN volume_part_num = None
        ELSE IF \E i \in (PartStart(epub_filename) + 1)..Len(epub_filename) :
                    MarkerAt(epub_filename, i)
        THEN volume_part_num = None
        ELSE IsFirstCapture(PART_PATTERNS, epub_filename, volume_part_num)

(***************************************************************************)
(* C3, amended.  extract_volume_part_number returns None if the first      *)
(* match of some volume or side-story pattern starts after the part        *)
(* match's start; later occurrences of a pattern whose first match lies    *)
(* before the part match do not reject it.                                 *)
(***************************************************************************)
C3_FirstMatchAfter ==
    FieldsExtracted =>
        IF ~AnyMatch(PART_PATTERNS, epub_filename)
        THEN volume_part_num = None
        ELSE IF FirstMarkerMatchAfter(epub_filename, PartStart(epub_filename))
        THEN volume_part_num = None
        ELSE IsFirstCapture(PART_PATTERNS, epub_filename, volume_part_num)

\* A marker occurs after the part match, yet a volume part is returned.
C3_Witness ==
    /\ FieldsExtracted
    /\ AnyMatch(PART_PATTERNS, epub_filename)
    /\ \E i \in (PartStart(epub_filename) + 1)..Len(epub_filename) :
           MarkerAt(epub_filename, i)
    /\ volume_part_num # None

(***************************************************************************)
(* C4.  As claimed: for every filename at most one of series_part_num and  *)
(* volume_part_num is not None.                                            *)
(***************************************************************************)
C4_AtMostOnePart ==
    FieldsExtracted => (series_part_num = None \/ volume_part_num = None)

(***************************************************************************)
(* C4, amended.  For every filename in which a volume or side-story        *)
(* pattern matches, at most one of series_part_num and volume_part_num is  *)
(* not None, and the side of the markers decides: a series part has no     *)
(* marker before the part match, a volume part has no marker pattern whose *)
(* first match is after it.                                                *)
(***************************************************************************)
C4_AtMostOnePartWithMarker ==
    (/\ FieldsExtracted
     /\ \/ AnyMatch(VOLUME_PATTERNS, epub_filename)
        \/ AnyMatch(SIDESTORY_PATTERNS, epub_filename))
    => /\ series_part_num = None \/ volume_part_num = None
       /\ series_part_num # None =>
              \A i \in 1..(PartStart(epub_filename) - 1) : ~MarkerAt(epub_filename, i)
       /\ volume_part_num # None =>
              ~FirstMarkerMatchAfter(epub_filename, PartStart(epub_filename))

\* A filename with a marker and a part match, where the part number went to
\* the series.
C4_Witness ==
    /\ FieldsExtracted
    /\ AnyMatch(VOLUME_PATTERNS, epub_filename)
    /\ series_part_num # None
    /\ volume_part_num = None

(***************************************************************************)
(* C5.  When a volume number is present, the index given to ebook-meta is  *)
(* the volume number alone if there is no volume part, and exactly         *)
(* "{volume}.{volume_part}" if there is one.                               *)
(***************************************************************************)
C5_DottedIndex ==
    (pc = "built" /\ vol_num # None) =>
        command.index = IF volume_part_num # None
                        THEN vol_num \o <<".">> \o volume_part_num
                        ELSE vol_num

(***************************************************************************)
(* The index argument read as a dotted decimal number.                     *)
(***************************************************************************)
DigitVal(c) ==
    CASE c = "0" -> 0 [] c = "1" -> 1 [] c = "2" -> 2 [] c = "3" -> 3
      [] c = "4" -> 4 [] c = "5" -> 5 [] c = "6" -> 6 [] c = "7" -> 7
      [] c = "8" -> 8 [] OTHER -> 9

RECURSIVE StrToInt(_)
StrToInt(s) ==
    IF s = <<>> THEN 0
    ELSE 10 * StrToInt(SubSeq(s, 1, Len(s) - 1)) + DigitVal(s[Len(s)])

RECURSIVE Pow10(_)
Pow10(n) == IF n = 0 THEN 1 ELSE 10 * Pow10(n - 1)

\* The position of the "." of an index "i.f".
DotPos(s) == CHOOSE k \in 1..Len(s) : s[k] = "."

\* x < y for indices "i.f" read as decimal numbers.
DecLess(x, y) ==
    LET xi == StrToInt(Slice(x, 1, DotPos(x) - 1))
        yi == StrToInt(Slice(y, 1, DotPos(y) - 1))
        xf == Slice(x, DotPos(x) + 1, Len(x))
        yf == Slice(y, DotPos(y) + 1, Len(y))
    IN  \/ xi < yi
        \/ xi = yi /\ StrToInt(xf) * Pow10(Len(yf)) < StrToInt(yf) * Pow10(Len(xf))

(***************************************************************************)
(* C6.  Within one series the files with no volume number get the index    *)
(* "1.{folder_position}"; for any number of them, positions of 10 and      *)
(* above included, these indices are pairwise distinct and, read as dotted *)
(* decimal numbers, in the order of the folder positions.                  *)
(***************************************************************************)
C6_FallbackOrder ==
    /\ \A c \in meta_calls :
           c.volume_num = None => c.command.index = <<"1", ".">> \o IntToStr(c.pos)
    /\ \A c1, c2 \in meta_calls :
           (/\ c1.volume_num = None /\ c2.volume_num = None
            /\ c1.run = c2.run /\ c1.series_folder = c2.series_folder
            /\ c1.pos < c2.pos)
           => /\ c1.command.index # c2.command.index
              /\ DecLess(c1.command.index, c2.command.index)

(***************************************************************************)
(* C7.  Running the script a second time on the same source and target,    *)
(* the source unchanged, makes no ebook-meta invocation and copies no      *)
(* file, whatever the tagging invocations of the first run returned: every *)
(* invocation and every copy belongs to the first run.                     *)
(***************************************************************************)
C7_SecondRunIdle ==
    /\ \A c \in meta_calls : c.run = 1
    /\ \A c \in copy_calls : c.run = 1

C9_ConfigurationErrorsExit ==
    (same_path \/ src_state # "dir" \/ dest_state = "file") =>
        /\ meta_calls = {}
        /\ copy_calls = {}
        /\ pc = "exited" => (exit_status # 0 /\ diagnostic # "none")

(***************************************************************************)
(* The three axes of C10: each is read off the lower-cased path on its     *)
(* own, and the labels that apply are joined by single spaces.             *)
(***************************************************************************)
\* w occurs in s.
Occurs(w, s) ==
    \E i \in 0..(Len(s) - Len(w)) : \A k \in 1..Len(w) : s[i + k] = w[k]

NovelTypeOf(p) ==
    IF Occurs(<<"w", "e", "b", " ", "n", "o", "v", "e", "l">>, Lower(p))
    THEN <<"W", "e", "b", " ", "N", "o", "v", "e", "l">>
    ELSE IF Occurs(<<"l", "i", "g", "h", "t", " ", "n", "o", "v", "e", "l">>, Lower(p))
    THEN <<"L", "i", "g", "h", "t", " ", "N", "o", "v", "e", "l">>
    ELSE None

StoryTypeOf(p) ==
    IF \/ Occurs(<<"s", "i", "d", "e", " ", "s", "t", "o", "r", "y">>, Lower(p))
       \/ Occurs(<<"s", "i", "d", "e", " ", "s", "t", "o", "r", "i", "e", "s">>, Lower(p))
    THEN SideStory
    ELSE IF \/ Occurs(<<"s", "h", "o", "r", "t", " ", "s", "t", "o", "r", "y">>, Lower(p))
            \/ Occurs(<<"s", "h", "o", "r", "t", " ", "s", "t", "o", "r", "i", "e", "s">>, Lower(p))
    THEN ShortStory
    ELSE None

TranslationTypeOf(p) ==
    IF Occurs(<<"f", "a", "n">>, Lower(p)) THEN FanTranslation
    ELSE IF Occurs(<<"o", "f", "f", "i", "c", "i", "a", "l">>, Lower(p)) THEN OfficialTranslation
    ELSE None

\* Two optional labels joined by a space, None when both are None.
JoinLabels(x, y) ==
    IF x = None THEN y ELSE IF y = None THEN x ELSE x \o <<" ">> \o y

C11_FinalizeOnlyUnlocked ==
    [][/\ (pc = "copyfile" /\ pc' = "remove")
              => ~is_locked(TempPath(series_idx, Candidate))
       /\ (pc = "remove" /\ pc' = "file")
              => ~is_locked(TempPath(series_idx, Candidate))]_vars

====
